---- MODULE Spec2Model ----
(***************************************************************************)
(* Model of the APK compiler service (src/server.js): the POST             *)
(* /compile-apk handler, createAndroidProject, compileAPK and              *)
(* createGradleWrapper with its downloadFile.                              *)
(*                                                                         *)
(* Node runs every callback to completion, and the continuations of        *)
(* settled promises run before the next I/O callback.  One action is       *)
(* therefore one I/O completion together with all the synchronous code     *)
(* and promise continuations that follow it, up to the next I/O wait.      *)
(*                                                                         *)
(* Text is a sequence of tokens.  The tokens "package=", the double        *)
(* quote, "." and "/" stand for themselves; every other token stands for   *)
(* a non-empty run of characters holding none of those.                    *)
(***************************************************************************)
EXTENDS Integers, Sequences, FiniteSets, TLC

----------------------------------------------------------------------------
(* Bounds of the model *)

NumReq == 1

NumConc == 2

MaxChunks == 2

MaxManifestLen == 5

(* Program constants *)

MaxRedirects == 5

GraceMs == 5000

TickMs == GraceMs \div 2

Max2(a, b) == IF a > b THEN a ELSE b

Requests == 1..NumReq

ConcRequests == 1..NumConc

AllReq == 1..Max2(NumReq, NumConc)

DirIds == AllReq

NoDir == 0

----------------------------------------------------------------------------
(* Text tokens *)

K == "package="

Q == "\""

D == "."

S == "/"

RECURSIVE SeqsUpTo(_, _)
SeqsUpTo(A, n) ==
  IF n = 0 THEN {<< >>}
  ELSE LET shorter == SeqsUpTo(A, n - 1)
       IN  shorter \cup {Append(s, a) : s \in {t \in shorter : Len(t) = n - 1}, a \in A}

----------------------------------------------------------------------------
(* Request body fields: a field is absent (undefined) or holds a text *)

Undefined == [def |-> FALSE, text |-> << >>]

Str(t) == [def |-> TRUE, text |-> t]

Falsy(f) == ~f.def \/ f.text = << >>

ExampleManifest == <<"<manifest ", K, Q, "com", D, "example", D, "foo", Q, ">">>

NoPackageManifest == <<"<manifest>">>

EmptyThenNamedManifest == <<K, Q, Q, " ", K, Q, "org", D, "named", Q>>

DefaultAppName == <<"GeneratedApp">>

MkBody(m, a, l, n) == [manifest |-> m, mainActivity |-> a, layout |-> l, appName |-> n]

NoBody == MkBody(Undefined, Undefined, Undefined, Undefined)

Bodies ==
  {MkBody(m, a, l, n) :
     m \in {Undefined, Str(<< >>), Str(ExampleManifest)},
     a \in {Undefined, Str(<< >>), Str(<<"class MainActivity">>)},
     l \in {Undefined, Str(<< >>), Str(<<"<LinearLayout/>">>)},
     n \in {Undefined, Str(<<"DemoApp">>)}}

ManifestAlphabet == {K, Q, D, "a"}

PkgBodies ==
  {MkBody(Str(m), Str(<<"class MainActivity">>), Str(<<"<LinearLayout/>">>), Undefined) :
     m \in (SeqsUpTo(ManifestAlphabet, MaxManifestLen) \ {<< >>})
           \cup {ExampleManifest, NoPackageManifest, EmptyThenNamedManifest}}

(* const { ..., appName = 'GeneratedApp' } = req.body *)
AppNameOf(b) == IF b.appName.def THEN b.appName.text ELSE DefaultAppName

(* the validation with the layout test left out *)
MissingRequired_NoLayout(b) == Falsy(b.manifest) \/ Falsy(b.mainActivity)

(* !manifest || !mainActivity || !layout *)
MissingRequired(b) == Falsy(b.manifest) \/ Falsy(b.mainActivity) \/ Falsy(b.layout)

----------------------------------------------------------------------------
(* createAndroidProject: package name and paths *)

NoMatch == [found |-> FALSE, group |-> << >>]

(* index of the first double quote at or after j, Len(m) + 1 when none *)
RECURSIVE QuoteFrom(_, _)
QuoteFrom(m, j) ==
  IF j > Len(m) THEN Len(m) + 1
  ELSE IF m[j] = Q THEN j ELSE QuoteFrom(m, j + 1)

(* /package="([^"]+)"/ tried at position i: the literal, then a greedy     *)
(* non-empty run of non-quotes, then a quote                               *)
MatchAt(m, i) ==
  IF /\ i + 2 <= Len(m)
     /\ m[i] = K
     /\ m[i + 1] = Q
     /\ m[i + 2] # Q
     /\ QuoteFrom(m, i + 2) <= Len(m)
  THEN [found |-> TRUE, group |-> SubSeq(m, i + 2, QuoteFrom(m, i + 2) - 1)]
  ELSE NoMatch

(* String.prototype.match without the g flag: the leftmost match *)
RECURSIVE MatchFrom(_, _)
MatchFrom(m, i) ==
  IF i > Len(m) THEN NoMatch
  ELSE IF MatchAt(m, i).found THEN MatchAt(m, i) ELSE MatchFrom(m, i + 1)

PackageMatch(m) == MatchFrom(m, 1)

DefaultPackage == <<"com", D, "apkforge", D, "app">>

PackageName(m) == IF PackageMatch(m).found THEN PackageMatch(m).group ELSE DefaultPackage

(* the replacement without the g flag: only the first dot is replaced *)
ReplaceDots_FirstOnly(s) ==
  IF \E i \in 1..Len(s) : s[i] = D
  THEN [s EXCEPT ![CHOOSE i \in 1..Len(s) : s[i] = D /\ \A j \in 1..(i - 1) : s[j] # D] = S]
  ELSE s

(* packageName.replace(/\./g, '/') *)
RECURSIVE ReplaceDots(_)
ReplaceDots(s) ==
  IF s = << >> THEN << >>
  ELSE <<IF Head(s) = D THEN S ELSE Head(s)>> \o ReplaceDots(Tail(s))

PackagePath(m) == ReplaceDots(PackageName(m))

JavaRoot == "app/src/main/java/"

JavaLeaf == "/MainActivity.java"

EndsWithSep(t) == t \in {S, JavaRoot}

StartsWithSep(t) == t \in {S, JavaLeaf}

(* path.join normalises its result: a run of separators becomes one *)
RECURSIVE Collapse(_)
Collapse(p) ==
  IF Len(p) <= 1 THEN p
  ELSE IF EndsWithSep(p[1]) /\ p[2] = S THEN Collapse(<<p[1]>> \o SubSeq(p, 3, Len(p)))
  ELSE IF p[1] = S /\ StartsWithSep(p[2]) THEN Collapse(Tail(p))
  ELSE <<p[1]>> \o Collapse(Tail(p))

(* a directory path names the same directory with or without a trailing separator *)
RECURSIVE StripSep(_)
StripSep(p) ==
  IF Len(p) > 1 /\ p[Len(p)] = S THEN StripSep(SubSeq(p, 1, Len(p) - 1)) ELSE p

PathJoin(rel) == Collapse(rel)

JavaDir(m) == StripSep(PathJoin(<<JavaRoot>> \o PackagePath(m)))

JavaFile(m) == PathJoin(<<JavaRoot>> \o PackagePath(m) \o <<JavaLeaf>>)

ResDirs ==
  << <<"app/src/main/res/layout">>, <<"app/src/main/res/values">>,
     <<"app/src/main/res/drawable">>, <<"app/src/main/res/mipmap-hdpi">>,
     <<"app/src/main/res/mipmap-mdpi">>, <<"app/src/main/res/mipmap-xhdpi">>,
     <<"app/src/main/res/mipmap-xxhdpi">>, <<"app/src/main/res/mipmap-xxxhdpi">> >>

AuxFiles ==
  << <<"app/src/main/res/values/strings.xml">>, <<"build.gradle">>,
     <<"app/build.gradle">>, <<"gradle.properties">>, <<"settings.gradle">> >>

IconFiles ==
  << <<"app/src/main/res/mipmap-hdpi/ic_launcher.png">>,
     <<"app/src/main/res/mipmap-mdpi/ic_launcher.png">>,
     <<"app/src/main/res/mipmap-xhdpi/ic_launcher.png">>,
     <<"app/src/main/res/mipmap-xxhdpi/ic_launcher.png">>,
     <<"app/src/main/res/mipmap-xxxhdpi/ic_launcher.png">> >>

ManifestFile == <<"app/src/main/AndroidManifest.xml">>

LayoutFile == <<"app/src/main/res/layout/activity_main.xml">>

(* the icon files written without being awaited *)
MatOps_IconsNotAwaited(b) ==
  LET m == b.manifest.text
  IN  <<JavaDir(m)>> \o ResDirs \o <<ManifestFile, JavaFile(m), LayoutFile>> \o AuxFiles

(* the awaited filesystem operations of createAndroidProject, in order *)
MatOps(b) ==
  LET m == b.manifest.text
  IN  <<JavaDir(m)>> \o ResDirs \o <<ManifestFile, JavaFile(m), LayoutFile>>
        \o AuxFiles \o IconFiles

GradlewFile == <<"gradlew">>

WrapperDir == <<"gradle/wrapper">>

WrapperProps == <<"gradle/wrapper/gradle-wrapper.properties">>

ApkPath == <<"app/build/outputs/apk/release/app-release-unsigned.apk">>

----------------------------------------------------------------------------
(* State *)

VARIABLES
  alive,          \* the service process is running
  pc,             \* pc[r]: where request r's handler is
  body,           \* body[r]: req.body
  projectDir,     \* projectDir[r]: the workspace directory of request r
  matIdx,         \* matIdx[r]: filesystem operations of createAndroidProject completed
  ws,             \* ws[d]: the directory TEMP_DIR/d on disk
  fetch,          \* fetch[r]: state of the wrapper-binary fetch
  redirectCount,  \* redirectCount[r]: argument of the downloadFile call whose request
                  \* is in flight, 0 when none is
  fetchFault,     \* fetchFault[r]: the fault the fetch met, "none" when none
  child,          \* child[r]: the launcher child process
  spawnErr,       \* spawnErr[r]: the child reported an 'error' event
  resp,           \* resp[r]: the HTTP response sent
  respCount,      \* respCount[r]: responses sent
  tx,             \* tx[r]: transmission of the artifact
  timer,          \* timer[r]: milliseconds left on the cleanup timer, -1 before it is armed
  rm,             \* rm[r]: fs.remove of the workspace
  touched         \* touched[r]: directories the operations of request r were aimed at

vars == <<alive, pc, body, projectDir, matIdx, ws, fetch, redirectCount, fetchFault,
          child, spawnErr, resp, respCount, tx, timer, rm, touched>>

fetchVars == <<fetch, redirectCount, fetchFault>>

sendVars == <<tx, timer>>

NoResp == [status |-> 0, error |-> "", details |-> << >>, filename |-> << >>]

NoChild == [state |-> "none", cwd |-> NoDir, errorOutput |-> << >>, code |-> -1,
            artifact |-> FALSE]

NoWs == [exists |-> FALSE, files |-> {}, gradlewMode |-> "none", jar |-> "absent"]

Init ==
  /\ alive = TRUE
  /\ pc = [r \in AllReq |-> "idle"]
  /\ body = [r \in AllReq |-> NoBody]
  /\ projectDir = [r \in AllReq |-> NoDir]
  /\ matIdx = [r \in AllReq |-> 0]
  /\ ws = [d \in DirIds |-> NoWs]
  /\ fetch = [r \in AllReq |-> "none"]
  /\ redirectCount = [r \in AllReq |-> 0]
  /\ fetchFault = [r \in AllReq |-> "none"]
  /\ child = [r \in AllReq |-> NoChild]
  /\ spawnErr = [r \in AllReq |-> FALSE]
  /\ resp = [r \in AllReq |-> NoResp]
  /\ respCount = [r \in AllReq |-> 0]
  /\ tx = [r \in AllReq |-> "none"]
  /\ timer = [r \in AllReq |-> -1]
  /\ rm = [r \in AllReq |-> "none"]
  /\ touched = [r \in AllReq |-> {}]

----------------------------------------------------------------------------
(* Helpers of the handler *)

(* uuidv4(): an identifier no earlier request was given *)
UuidV4 == CHOOSE d \in DirIds : \A q \in AllReq : projectDir[q] # d

(* the directory fs.remove is called on *)
RemoveTarget(r) == projectDir[r]

(* the working directory the launcher is spawned in *)
SpawnCwd(r) == projectDir[r]

(* the directory the files of request r are written under *)
WriteTarget(r) == projectDir[r]

(* the listeners compileAPK registers on the child process itself *)
GradleListeners == {"close"}

(* res.status(400).json({error}) *)
Reply400 ==
  [status |-> 400, error |-> "Missing required files: manifest, mainActivity, or layout",
   details |-> << >>, filename |-> << >>]

(* res.status(500).json({error, details: error.message}) *)
Reply500(msg) ==
  [status |-> 500, error |-> "APK compilation failed", details |-> msg, filename |-> << >>]

(* res.download(apkPath, `${appName}.apk`, cb) *)
ReplyDownload(b) ==
  [status |-> 200, error |-> "", details |-> ApkPath, filename |-> AppNameOf(b) \o <<".apk">>]

SetupError(msg) == <<"Failed to setup Gradle wrapper: ">> \o msg

BuildError(code, errorOutput) ==
  <<"Gradle build failed with code ", ToString(code), ": ">> \o errorOutput

NotFoundError == <<"APK file not found after build">>

(* the catch block of the handler: one 500 response, then fs.remove(projectDir) *)
CatchBlock(r, msg, also) ==
  /\ pc' = [pc EXCEPT ![r] = "failed"]
  /\ resp' = [resp EXCEPT ![r] = Reply500(msg)]
  /\ respCount' = [respCount EXCEPT ![r] = @ + 1]
  /\ rm' = [rm EXCEPT ![r] = "started"]
  /\ touched' = [touched EXCEPT ![r] = @ \cup also \cup {RemoveTarget(r)}]

----------------------------------------------------------------------------
(* POST /compile-apk: validation, then the first filesystem operation of   *)
(* createAndroidProject is started                                         *)

Receive(r, b) ==
  /\ alive
  /\ pc[r] = "idle"
  /\ \A q \in AllReq : q < r => pc[q] # "idle"
  /\ body' = [body EXCEPT ![r] = b]
  /\ IF MissingRequired(b)
     THEN /\ pc' = [pc EXCEPT ![r] = "rejected"]
          /\ resp' = [resp EXCEPT ![r] = Reply400]
          /\ respCount' = [respCount EXCEPT ![r] = @ + 1]
          /\ UNCHANGED projectDir
     ELSE /\ pc' = [pc EXCEPT ![r] = "materializing"]
          /\ projectDir' = [projectDir EXCEPT ![r] = UuidV4]
          /\ UNCHANGED <<resp, respCount>>
  /\ UNCHANGED <<alive, matIdx, ws, fetchVars, child, spawnErr, sendVars, rm, touched>>

(* the workspace after one more path was created under it *)
WithPath(w, p) == [w EXCEPT !.exists = TRUE, !.files = @ \cup {p}]

(* an awaited ensureDir or writeFile of createAndroidProject completes, and *)
(* it is not the last one                                                   *)
MatStep(r) ==
  /\ alive
  /\ pc[r] = "materializing"
  /\ matIdx[r] + 1 < Len(MatOps(body[r]))
  /\ ws' = [ws EXCEPT ![WriteTarget(r)] = WithPath(@, MatOps(body[r])[matIdx[r] + 1])]
  /\ matIdx' = [matIdx EXCEPT ![r] = @ + 1]
  /\ touched' = [touched EXCEPT ![r] = @ \cup {WriteTarget(r)}]
  /\ UNCHANGED <<alive, pc, body, projectDir, fetchVars, child, spawnErr, resp,
                 respCount, sendVars, rm>>

(* an awaited ensureDir or writeFile rejects: createAndroidProject throws *)
MatFail(r) ==
  /\ alive
  /\ pc[r] = "materializing"
  /\ CatchBlock(r, <<"EIO">>, {})
  /\ matIdx' = [matIdx EXCEPT ![r] = 0]
  /\ UNCHANGED <<alive, body, projectDir, ws, fetchVars, child, spawnErr, sendVars>>

----------------------------------------------------------------------------
(* createGradleWrapper: downloadFile *)

(* the hop limit left out *)
TooManyRedirects_Never(count) == FALSE

(* if (redirectCount > 5) *)
TooManyRedirects(count) == count > MaxRedirects

(* reject(...) of the fetch: the await in compileAPK throws, compileAPK     *)
(* rejects with the wrapped message, the handler's catch block runs         *)
RejectFetch(r, fault, msg, also) ==
  /\ fetch' = [fetch EXCEPT ![r] = "rejected"]
  /\ fetchFault' = [fetchFault EXCEPT ![r] = fault]
  /\ CatchBlock(r, SetupError(msg), also)

(* downloadFile(url, count): reject, or issue client.get(url) *)
DownloadFile(r, count, also) ==
  /\ IF TooManyRedirects(count)
     THEN /\ RejectFetch(r, "redirects", <<"Too many redirects">>, also)
          /\ redirectCount' = [redirectCount EXCEPT ![r] = 0]
     ELSE /\ redirectCount' = [redirectCount EXCEPT ![r] = count]
          /\ fetch' = [fetch EXCEPT ![r] = "requesting"]
          /\ pc' = [pc EXCEPT ![r] = "fetching"]
          /\ touched' = [touched EXCEPT ![r] = @ \cup also]
          /\ UNCHANGED <<fetchFault, resp, respCount, rm>>

(* the last awaited operation of createAndroidProject completes; compileAPK *)
(* calls createGradleWrapper, whose synchronous steps run: write gradlew,   *)
(* chmod 755, ensure gradle/wrapper, write the properties file.  thrownAt   *)
(* is the step that throws, 0 when none does and the download is started    *)
MatLast(r, thrownAt) ==
  /\ alive
  /\ pc[r] = "materializing"
  /\ matIdx[r] + 1 = Len(MatOps(body[r]))
  /\ LET d == WriteTarget(r)
         w0 == WithPath(ws[d], MatOps(body[r])[matIdx[r] + 1])
         w1 == [WithPath(w0, GradlewFile) EXCEPT !.gradlewMode = "default"]
         w2 == [w1 EXCEPT !.gradlewMode = "755"]
         w3 == WithPath(w2, WrapperDir)
         w4 == WithPath(w3, WrapperProps)
         disk == <<w0, w1, w2, w3, w4>>
     IN  /\ ws' = [ws EXCEPT ![d] = IF thrownAt = 0 THEN w4 ELSE disk[thrownAt]]
         /\ IF thrownAt = 0
            THEN DownloadFile(r, 0, {d})
            ELSE /\ CatchBlock(r, SetupError(<<"EIO">>), {d})
                 /\ UNCHANGED fetchVars
  /\ matIdx' = [matIdx EXCEPT ![r] = 0]
  /\ UNCHANGED <<alive, body, projectDir, child, spawnErr, sendVars>>

Statuses == {200, 301, 302, 404}

IsRedirect(status) == status = 302 \/ status = 301

(* the response callback of client.get *)
OnResponse(r, status, hasLocation) ==
  /\ alive
  /\ pc[r] = "fetching"
  /\ fetch[r] = "requesting"
  /\ IF status = 200
     THEN \* fs.createWriteStream(gradleWrapperJar); response.pipe(fileStream)
          /\ fetch' = [fetch EXCEPT ![r] = "piping"]
          /\ ws' = [ws EXCEPT ![WriteTarget(r)].jar = "partial"]
          /\ touched' = [touched EXCEPT ![r] = @ \cup {WriteTarget(r)}]
          /\ redirectCount' = [redirectCount EXCEPT ![r] = 0]
          /\ UNCHANGED <<pc, fetchFault, resp, respCount, rm>>
     ELSE IF IsRedirect(status)
     THEN /\ IF hasLocation
             THEN DownloadFile(r, redirectCount[r] + 1, {})
             ELSE /\ RejectFetch(r, "nolocation", <<"Redirect without location header">>, {})
                  /\ redirectCount' = [redirectCount EXCEPT ![r] = 0]
          /\ UNCHANGED ws
     ELSE /\ RejectFetch(r, "status",
                         <<"Failed to download gradle-wrapper.jar: ", ToString(status)>>, {})
          /\ redirectCount' = [redirectCount EXCEPT ![r] = 0]
          /\ UNCHANGED ws
  /\ UNCHANGED <<alive, body, projectDir, matIdx, child, spawnErr, sendVars>>

(* the request's 'error' listener, before any response *)
RequestError(r) ==
  /\ alive
  /\ pc[r] = "fetching"
  /\ fetch[r] = "requesting"
  /\ RejectFetch(r, "request", <<"ECONNRESET">>, {})
  /\ redirectCount' = [redirectCount EXCEPT ![r] = 0]
  /\ UNCHANGED <<alive, body, projectDir, matIdx, ws, child, spawnErr, sendVars>>

(* fileStream 'error': fs.unlink(gradleWrapperJar), then reject *)
WriteError(r) ==
  /\ alive
  /\ pc[r] = "fetching"
  /\ fetch[r] = "piping"
  /\ ws' = [ws EXCEPT ![WriteTarget(r)].jar = "absent"]
  /\ RejectFetch(r, "write", <<"ENOSPC">>, {WriteTarget(r)})
  /\ UNCHANGED <<alive, body, projectDir, matIdx, redirectCount, child, spawnErr,
                 sendVars>>

(* the connection fails while the body is being received.  No listener is  *)
(* registered on the response.  What runs depends on the runtime: the      *)
(* request's 'error' listener (emitted); or no listener at all, and the    *)
(* promise stays pending; or the response ends early and the 'finish'      *)
(* listener of the file runs, which is PipeFinish with the body cut        *)
BodyAbort(r, emitted) ==
  /\ alive
  /\ pc[r] = "fetching"
  /\ fetch[r] = "piping"
  /\ IF emitted
     THEN RejectFetch(r, "body", <<"ECONNRESET">>, {})
     ELSE /\ fetch' = [fetch EXCEPT ![r] = "stalled"]
          /\ fetchFault' = [fetchFault EXCEPT ![r] = "body"]
          /\ UNCHANGED <<pc, resp, respCount, rm, touched>>
  /\ UNCHANGED <<alive, body, projectDir, matIdx, ws, redirectCount, child, spawnErr,
                 sendVars>>

----------------------------------------------------------------------------
(* compileAPK: the launcher child process *)

SpawnOutcomes == {"started", "throws", "error"}

Chunks == {"duplicate resource"}

ExitCodes == {0, 1}

(* the outcome decided on the exit code alone *)
BuildSucceeded_CodeOnly(code, apkExists) == code = 0

(* the 'close' listener of the child: code === 0 and fs.existsSync(apkPath) *)
BuildSucceeded(code, apkExists) == code = 0 /\ apkExists

(* fileStream 'finish': the fetch resolves and compileAPK spawns ./gradlew. *)
(* cut tells that the response ended before the whole body had arrived,     *)
(* which the listener cannot see.  The spawn starts the child, throws, or   *)
(* makes the child emit 'error' on the next tick; an 'error' event without  *)
(* a listener is an uncaught exception, which ends the process              *)
PipeFinish(r, cut, outcome) ==
  /\ alive
  /\ pc[r] = "fetching"
  /\ fetch[r] = "piping"
  /\ ws' = [ws EXCEPT ![WriteTarget(r)].jar = IF cut THEN "partial" ELSE "complete"]
  /\ fetch' = [fetch EXCEPT ![r] = "resolved"]
  /\ fetchFault' = [fetchFault EXCEPT ![r] = IF cut THEN "body" ELSE @]
  /\ UNCHANGED redirectCount
  /\ CASE outcome = "started" ->
            /\ child' = [child EXCEPT ![r] = [NoChild EXCEPT !.state = "running",
                                                             !.cwd = SpawnCwd(r)]]
            /\ pc' = [pc EXCEPT ![r] = "running"]
            /\ touched' = [touched EXCEPT ![r] = @ \cup {WriteTarget(r), SpawnCwd(r)}]
            /\ UNCHANGED <<alive, spawnErr, resp, respCount, rm>>
       [] outcome = "throws" ->
            /\ CatchBlock(r, SetupError(<<"spawn EPERM">>), {WriteTarget(r)})
            /\ UNCHANGED <<alive, child, spawnErr>>
       [] outcome = "error" ->
            /\ spawnErr' = [spawnErr EXCEPT ![r] = TRUE]
            /\ alive' = ("error" \in GradleListeners)
            /\ pc' = [pc EXCEPT ![r] = "running"]
            /\ touched' = [touched EXCEPT ![r] = @ \cup {WriteTarget(r), SpawnCwd(r)}]
            /\ UNCHANGED <<child, resp, respCount, rm>>
  /\ UNCHANGED <<body, projectDir, matIdx, sendVars>>

(* gradle.stderr 'data': errorOutput += data *)
StderrData(r, chunk) ==
  /\ alive
  /\ pc[r] = "running"
  /\ child[r].state = "running"
  /\ Len(child[r].errorOutput) < MaxChunks
  /\ child' = [child EXCEPT ![r].errorOutput = Append(@, chunk)]
  /\ UNCHANGED <<alive, pc, body, projectDir, matIdx, ws, fetchVars, spawnErr, resp,
                 respCount, sendVars, rm, touched>>

(* gradle 'close' with the exit code; built tells whether the build left    *)
(* the artifact at its output path                                          *)
ChildClose(r, code, built) ==
  /\ alive
  /\ pc[r] = "running"
  /\ child[r].state = "running"
  /\ ws' = [ws EXCEPT ![child[r].cwd].files = IF built THEN @ \cup {ApkPath} ELSE @]
  /\ child' = [child EXCEPT ![r].state = "exited", ![r].code = code,
                            ![r].artifact = ApkPath \in ws'[projectDir[r]].files]
  /\ IF BuildSucceeded(code, ApkPath \in ws'[projectDir[r]].files)
     THEN /\ resp' = [resp EXCEPT ![r] = ReplyDownload(body[r])]
          /\ respCount' = [respCount EXCEPT ![r] = @ + 1]
          /\ tx' = [tx EXCEPT ![r] = "sending"]
          /\ pc' = [pc EXCEPT ![r] = "sending"]
          /\ UNCHANGED <<rm, touched>>
     ELSE /\ CatchBlock(r, IF code = 0 THEN NotFoundError
                           ELSE BuildError(code, child[r].errorOutput), {})
          /\ UNCHANGED tx
  /\ UNCHANGED <<alive, body, projectDir, matIdx, fetchVars, spawnErr, timer>>

----------------------------------------------------------------------------
(* The success path: transmission and deferred cleanup *)

(* the callback of res.download: log the error if any, setTimeout(.., 5000) *)
DownloadCallback(r, err) ==
  /\ alive
  /\ pc[r] = "sending"
  /\ tx' = [tx EXCEPT ![r] = IF err THEN "error" ELSE "sent"]
  /\ timer' = [timer EXCEPT ![r] = GraceMs]
  /\ pc' = [pc EXCEPT ![r] = "grace"]
  /\ UNCHANGED <<alive, body, projectDir, matIdx, ws, fetchVars, child, spawnErr,
                 resp, respCount, rm, touched>>

(* time passes *)
Tick ==
  /\ alive
  /\ \E r \in AllReq : timer[r] > 0
  /\ timer' = [r \in AllReq |-> IF timer[r] > 0 THEN Max2(0, timer[r] - TickMs)
                                ELSE timer[r]]
  /\ UNCHANGED <<alive, pc, body, projectDir, matIdx, ws, fetchVars, child, spawnErr,
                 resp, respCount, tx, rm, touched>>

(* the timer set without a delay *)
TimerDue_NoDelay(r) == timer[r] >= 0

(* setTimeout(.., 5000): the callback may run once the delay has passed *)
TimerDue(r) == timer[r] = 0

(* the timer callback: fs.remove(projectDir).catch(console.error) *)
TimerFire(r) ==
  /\ alive
  /\ pc[r] = "grace"
  /\ TimerDue(r)
  /\ rm' = [rm EXCEPT ![r] = "started"]
  /\ touched' = [touched EXCEPT ![r] = @ \cup {RemoveTarget(r)}]
  /\ pc' = [pc EXCEPT ![r] = "done"]
  /\ UNCHANGED <<alive, body, projectDir, matIdx, ws, fetchVars, child, spawnErr,
                 resp, respCount, sendVars>>

(* fs.remove settles: the directory is gone, or the error is logged *)
RemoveDone(r, ok) ==
  /\ alive
  /\ rm[r] = "started"
  /\ rm' = [rm EXCEPT ![r] = IF ok THEN "removed" ELSE "failed"]
  /\ ws' = [ws EXCEPT ![RemoveTarget(r)] = IF ok THEN NoWs ELSE @]
  /\ UNCHANGED <<alive, pc, body, projectDir, matIdx, fetchVars, child, spawnErr,
                 resp, respCount, sendVars, touched>>

----------------------------------------------------------------------------
(* Specifications *)

Step(r, bodies) ==
  \/ \E b \in bodies : Receive(r, b)
  \/ MatStep(r)
  \/ MatFail(r)
  \/ \E k \in 0..4 : MatLast(r, k)
  \/ \E st \in Statuses, loc \in BOOLEAN : OnResponse(r, st, loc)
  \/ RequestError(r)
  \/ WriteError(r)
  \/ \E e \in BOOLEAN : BodyAbort(r, e)
  \/ \E cut \in BOOLEAN, o \in SpawnOutcomes : PipeFinish(r, cut, o)
  \/ \E c \in Chunks : StderrData(r, c)
  \/ \E code \in ExitCodes, built \in BOOLEAN : ChildClose(r, code, built)
  \/ \E err \in BOOLEAN : DownloadCallback(r, err)
  \/ TimerFire(r)
  \/ \E ok \in BOOLEAN : RemoveDone(r, ok)

(* one request at a time *)
Next == (\E r \in Requests : Step(r, Bodies)) \/ Tick

Spec == Init /\ [][Next]_vars

(* concurrent requests *)
ConcBodies ==
  {MkBody(Str(ExampleManifest), Str(<<"class MainActivity">>), Str(<<"<LinearLayout/>">>),
          Str(<<"DemoApp">>)),
   MkBody(Str(ExampleManifest), Undefined, Str(<<"<LinearLayout/>">>), Undefined)}

NextConc == (\E r \in ConcRequests : Step(r, ConcBodies)) \/ Tick

SpecConc == Init /\ [][NextConc]_vars

(* the event loop runs a due timer callback, and time passes *)
FairConc ==
  /\ SpecConc
  /\ WF_vars(Tick)
  /\ \A r \in ConcRequests : WF_vars(TimerFire(r))

(* package extraction over every manifest text up to MaxManifestLen *)
NextPkg == \/ \E b \in PkgBodies : Receive(1, b)
           \/ MatStep(1)

SpecPkg == Init /\ [][NextPkg]_vars

----------------------------------------------------------------------------
(* Properties *)

Range(f) == {f[i] : i \in DOMAIN f}

Received(r) == pc[r] # "idle"

Spawned(r) == child[r].state # "none" \/ spawnErr[r]

(* a required field is missing or empty *)
LacksField(b) ==
  \E f \in {b.manifest, b.mainActivity, b.layout} : f = Undefined \/ Len(f.text) = 0

(* C1: a request in which manifest, mainActivity or layout is missing or    *)
(* empty is answered 400 with the fixed body, once, and for it no workspace *)
(* directory is created, no fetch is started and no child is spawned.       *)
C1_RejectMissing ==
  \A r \in AllReq :
    (Received(r) /\ LacksField(body[r])) =>
      /\ resp[r].status = 400
      /\ resp[r].error = "Missing required files: manifest, mainActivity, or layout"
      /\ respCount[r] = 1
      /\ projectDir[r] = NoDir
      /\ touched[r] = {}
      /\ fetch[r] = "none"
      /\ ~Spawned(r)

C1_Witness ==
  \E r \in AllReq :
    /\ pc[r] = "rejected"
    /\ body[r].manifest.def /\ body[r].manifest.text # << >>
    /\ body[r].mainActivity.def /\ body[r].mainActivity.text # << >>
    /\ body[r].layout = Str(<< >>)

(* C5: a request of the fetch is in flight only while the redirect count is *)
(* within the hop limit, so the count never passes the limit and at most    *)
(* MaxRedirects + 1 requests are issued however long the chain of           *)
(* redirects; the fetch gives up with "Too many redirects" exactly on the   *)
(* redirect that would pass the limit, and then no request is in flight.    *)
C5_RedirectLimit ==
  /\ [](\A r \in AllReq : redirectCount[r] <= MaxRedirects)
  /\ [][\A r \in AllReq :
          /\ (fetchFault'[r] = "redirects" /\ fetchFault[r] # "redirects") =>
               /\ fetch[r] = "requesting" /\ redirectCount[r] = MaxRedirects
               /\ fetch'[r] = "rejected"
               /\ resp'[r].status = 500
               /\ resp'[r].details = <<"Failed to setup Gradle wrapper: ", "Too many redirects">>
          /\ (fetch[r] = "requesting" /\ fetch'[r] = "requesting"
                /\ redirectCount'[r] # redirectCount[r]) =>
               /\ redirectCount'[r] = redirectCount[r] + 1
               /\ redirectCount[r] < MaxRedirects]_vars

C5_Witness ==
  \E r \in AllReq : fetchFault[r] = "redirects" /\ fetch[r] = "rejected"

(* the application name of a request: the one given, else GeneratedApp *)
NameOf(r) == IF body[r].appName.def THEN body[r].appName.text ELSE <<"GeneratedApp">>

(* C3: once the child of a request has exited, the response is decided by   *)
(* the outcome: 200 with the artifact as a download named <appName>.apk     *)
(* exactly when the exit code is 0 and the artifact exists; 500 with the    *)
(* not-found message when the code is 0 and the artifact is absent; 500     *)
(* with error "APK compilation failed" and details holding the exit code    *)
(* and all the error text accumulated when the code is not 0.               *)
C3_OutcomeDecidesResponse ==
  \A r \in AllReq :
    /\ child[r].state = "exited" =>
         /\ respCount[r] = 1
         /\ (child[r].code = 0 /\ child[r].artifact) =>
              /\ resp[r].status = 200
              /\ resp[r].details = ApkPath
              /\ resp[r].filename = NameOf(r) \o <<".apk">>
         /\ (child[r].code = 0 /\ ~child[r].artifact) =>
              /\ resp[r].status = 500
              /\ resp[r].details = <<"APK file not found after build">>
         /\ child[r].code # 0 =>
              /\ resp[r].status = 500
              /\ resp[r].error = "APK compilation failed"
              /\ resp[r].details =
                   <<"Gradle build failed with code ", ToString(child[r].code), ": ">>
                     \o child[r].errorOutput
    /\ resp[r].status = 200 =>
         child[r].state = "exited" /\ child[r].code = 0 /\ child[r].artifact

C3_Witness ==
  \E r \in AllReq :
    /\ child[r].state = "exited"
    /\ child[r].code # 0
    /\ Len(child[r].errorOutput) = MaxChunks
    /\ resp[r].status = 500

(* the files and directories a workspace holds when the launcher may start *)
ProjectFiles(b) ==
  {JavaDir(b.manifest.text), JavaFile(b.manifest.text), ManifestFile, LayoutFile}
    \cup Range(ResDirs) \cup Range(AuxFiles) \cup Range(IconFiles)
    \cup {GradlewFile, WrapperDir, WrapperProps}

C8_DeferredCleanup ==
  \A r \in AllReq :
    resp[r].status = 200 =>
      /\ respCount[r] = 1
      /\ resp[r].filename = NameOf(r) \o <<".apk">>
      /\ tx[r] = "sending" => (rm[r] = "none" /\ timer[r] = -1 /\ ws[projectDir[r]].exists)
      /\ tx[r] \in {"sent", "error"} => timer[r] >= 0
      /\ rm[r] # "none" => (tx[r] \in {"sent", "error"} /\ timer[r] = 0)
      /\ (rm[r] = "none" /\ alive) => ws[projectDir[r]].exists

C8_Witness ==
  \E r \in AllReq : resp[r].status = 200 /\ tx[r] = "error" /\ rm[r] = "started"

(* C6: the fetch rejects on every fault it meets: a response that is        *)
(* neither 200 nor a redirect, a network error before the response, an      *)
(* error while the body is received, an error while the file is written;    *)
(* and when it has failed after writing began, gradle-wrapper.jar is gone.  *)
C6_FetchFailsAndCleans ==
  \A r \in AllReq :
    /\ fetchFault[r] # "none" => fetch[r] = "rejected"
    /\ (fetch[r] = "rejected" /\ fetchFault[r] \in {"body", "write"}) =>
         ws[projectDir[r]].jar = "absent"

(* C10: when the child reports an 'error' event instead of starting, the    *)
(* request is answered 500 once, deletion of its workspace is attempted     *)
(* and the service keeps running.                                           *)
C10_SpawnErrorHandled ==
  \A r \in AllReq :
    spawnErr[r] =>
      /\ alive
      /\ resp[r].status = 500
      /\ respCount[r] = 1
      /\ rm[r] # "none"

(* position i of text m starts package="v" with the closing quote at j *)
AttrAt(m, i, j) ==
  /\ i + 2 <= j /\ j <= Len(m)
  /\ m[i] = K /\ m[i + 1] = Q /\ m[j] = Q
  /\ \A k \in (i + 2)..(j - 1) : m[k] # Q

AttrValue(m, i) == SubSeq(m, i + 2, (CHOOSE j \in 1..Len(m) : AttrAt(m, i, j)) - 1)

(* where the package attributes of m start; those with a non-empty value *)
Attrs(m) == {i \in 1..Len(m) : \E j \in 1..Len(m) : AttrAt(m, i, j)}

NamedAttrs(m) == {i \in Attrs(m) : AttrValue(m, i) # << >>}

First(I) == CHOOSE i \in I : \A k \in I : i <= k

FallbackId == <<"com", D, "apkforge", D, "app">>

(* the identifier as the value of the first package attribute *)
FirstAttrId(m) == IF Attrs(m) = {} THEN FallbackId ELSE AttrValue(m, First(Attrs(m)))

(* the identifier as the value of the first package attribute whose value is not empty *)
FirstNamedAttrId(m) ==
  IF NamedAttrs(m) = {} THEN FallbackId ELSE AttrValue(m, First(NamedAttrs(m)))

(* app/src/main/java/<id with each dot a separator>/MainActivity.java *)
SourcePath(id) ==
  PathJoin(<<JavaRoot>> \o [i \in 1..Len(id) |-> IF id[i] = D THEN S ELSE id[i]]
             \o <<JavaLeaf>>)

MainFilesWritten(r) ==
  /\ pc[r] = "materializing"
  /\ LayoutFile \in ws[projectDir[r]].files

SourceFiles(r) == {p \in ws[projectDir[r]].files : p[Len(p)] = JavaLeaf}

(* C7 as stated: the package identifier is the value of the first           *)
(* package="..." attribute of the manifest, the default when there is       *)
(* none, and the main source file is written at the path made from it.      *)
C7_FirstAttribute ==
  \A r \in AllReq :
    MainFilesWritten(r) => SourceFiles(r) = {SourcePath(FirstAttrId(body[r].manifest.text))}

(* C7 amended: the package identifier is the value of the first             *)
(* package="..." attribute whose value is not empty, the default            *)
(* com.apkforge.app when there is none; the main source file is written at  *)
(* app/src/main/java/<identifier, dots as separators>/MainActivity.java,    *)
(* so package="com.example.foo" gives com/example/foo.                      *)
C7_FirstNamedAttribute ==
  \A r \in AllReq :
    MainFilesWritten(r) =>
      LET m == body[r].manifest.text
      IN  /\ SourceFiles(r) = {SourcePath(FirstNamedAttrId(m))}
          /\ m = ExampleManifest =>
               SourceFiles(r) = {<<JavaRoot, "com", S, "example", S, "foo", JavaLeaf>>}
          /\ m = NoPackageManifest =>
               SourceFiles(r) = {<<JavaRoot, "com", S, "apkforge", S, "app", JavaLeaf>>}
          /\ m = EmptyThenNamedManifest =>
               SourceFiles(r) = {<<JavaRoot, "org", S, "named", JavaLeaf>>}

C7_Witness ==
  \E r \in AllReq :
    /\ MainFilesWritten(r)
    /\ body[r].manifest.text = EmptyThenNamedManifest
    /\ <<JavaRoot, "org", S, "named", JavaLeaf>> \in ws[projectDir[r]].files

(* the handler of request r has left through one of its exit paths: the    *)
(* catch block, or the callback of res.download                            *)
Exited(r) == pc[r] \in {"failed", "grace", "done"}

(* C2: for every request that passed validation, deletion of its workspace  *)
(* is eventually attempted on every exit path of the handler: transmission  *)
(* done or failed, materialization error, bootstrap error, build failure.   *)
C2_CleanupOnEveryExit ==
  \A r \in AllReq : Exited(r) ~> (rm[r] # "none")

(* what belongs to request r alone *)
Local(r) ==
  <<pc[r], body[r], projectDir[r], matIdx[r], fetch[r], redirectCount[r], fetchFault[r],
    child[r], spawnErr[r], resp[r], respCount[r], tx[r], rm[r], touched[r]>>

InFlight(r) == pc[r] \in {"materializing", "fetching", "running", "sending", "grace"}

Workspace(r) == IF projectDir[r] = NoDir THEN NoWs ELSE ws[projectDir[r]]

(* C9: concurrent requests have distinct workspaces; every write, working   *)
(* directory and deletion of a request is aimed at its own workspace; and   *)
(* a step taken for one request, its failure or cleanup included, leaves    *)
(* every other request's workspace alone and does not change its outcome.   *)
C9_Isolation ==
  /\ [](\A r, q \in AllReq :
          /\ (r # q /\ projectDir[r] # NoDir) => projectDir[r] # projectDir[q]
          /\ touched[r] \subseteq ({projectDir[r]} \ {NoDir})
          /\ child[r].cwd \in {NoDir, projectDir[r]})
  /\ [][\A r, q \in AllReq :
          (r # q /\ Local(q)' # Local(q)) =>
            /\ Local(r)' = Local(r)
            /\ Workspace(r)' = Workspace(r)
            /\ InFlight(r) => alive']_vars

(* the part of C9 about workspaces alone *)
WorkspacesIsolated ==
  /\ [](\A r, q \in AllReq :
          /\ (r # q /\ projectDir[r] # NoDir) => projectDir[r] # projectDir[q]
          /\ touched[r] \subseteq ({projectDir[r]} \ {NoDir})
          /\ child[r].cwd \in {NoDir, projectDir[r]})
  /\ [][\A r, q \in AllReq :
          (r # q /\ Local(q)' # Local(q)) =>
            /\ Local(r)' = Local(r)
            /\ Workspace(r)' = Workspace(r)]_vars

====
